---- MODULE Spec2Model ----
\* Model of the Kumo Cloud API client (custom_components/kumo_cloud/api.py):
\* the token store, the request lock and rate gate, login, token refresh and
\* the authenticated request path, run by concurrent asyncio callers.
\*
\* asyncio is cooperative: a coroutine runs without interleaving until it
\* suspends (lock wait, sleep, network I/O).  Each action below is one such
\* run, from one suspension point to the next.
EXTENDS Integers, Sequences, FiniteSets, TLC

\* ---------------------------------------------------------------- bounds
NumProcs == 2          \* concurrent callers of the client
MaxSends == 3          \* HTTP attempts sent in one behaviour
MaxLatency == 1        \* seconds an HTTP attempt takes to be answered
MaxUpdates == 3        \* fields held by the two snapshots together
MaxFields == 4         \* fields held by the snapshots an entity starts with
RetrySends == 12       \* HTTP attempts sent in one behaviour of retries

\* ------------------------------------------------------------- constants
None == -1
MIN_REQUEST_INTERVAL == 2       \* self._min_request_interval, seconds
MAX_RETRIES == 3                \* max_retries
INITIAL_RETRY_DELAY == 60       \* retry_delay
TOKEN_REFRESH_INTERVAL == 1200  \* const.TOKEN_REFRESH_INTERVAL, seconds
TOKEN_EXPIRY_MARGIN == 300      \* const.TOKEN_EXPIRY_MARGIN, seconds

Procs == 1..NumProcs

\* Time is kept relative to the present: datetime.now() reads the same value
\* in every state, and the passage of d seconds moves every stored timestamp
\* d seconds towards the past (see Advance).  A timestamp so old that no
\* comparison of the code can tell it from a younger one stays where it is.
now == MIN_REQUEST_INTERVAL

KumoCloudAuthError == "KumoCloudAuthError"
KumoCloudConnectionError == "KumoCloudConnectionError"

\* Exceptions of asyncio, aiohttp and Python that the client can let through.
CancelledError == "CancelledError"
ClientConnectionError == "ClientConnectionError"
KeyError == "KeyError"

\* The HTTP methods _request is called with: the reads use GET, send_command
\* uses POST.
Methods == {"GET", "POST"}

\* What the transport can answer to one HTTP attempt: a status, a timeout, a
\* connection that fails below HTTP ("conn_error"), or a 200 whose body is
\* not what the caller decodes: a content type other than JSON
\* ("200_nojson"), a JSON object without the access token ("200_no_access")
\* or with the access token but without the refresh token
\* ("200_no_refresh").
LoginOutcomes ==
    {"200", "403", "500", "timeout", "conn_error", "200_nojson",
     "200_no_access", "200_no_refresh"}
RefreshOutcomes ==
    {"200", "401", "429", "500", "timeout", "conn_error", "200_nojson",
     "200_no_access", "200_no_refresh"}
RequestOutcomes ==
    {"200", "401", "429", "500", "timeout", "conn_error", "200_nojson"}

VARIABLES
    username,            \* self.username
    access_token,        \* self.access_token (None or a token id)
    refresh_token,       \* self.refresh_token
    token_expires_at,    \* self.token_expires_at
    _last_request_time,  \* self._last_request_time
    _request_lock,       \* holder of self._request_lock, or None
    issued,              \* token pairs issued by the server so far
    setup_pc,            \* position of async_setup_entry
    sends,               \* HTTP attempts sent so far
    budget,              \* HTTP attempts the behaviour may send in all
    proc,                \* per caller: position and locals of its call
    last_completion,     \* history: time the last _request got its success
    session,             \* self.session: "none", "open" or "closed"
    command,             \* last command call and the payload it sent
    profile_data,        \* self.device.profile_data
    device_data,         \* KumoCloudDevice.device_data: the device snapshot
    zone_adapter,        \* KumoCloudDevice.zone_data["adapter"]
    updates,             \* fields the coordinator has written so far
    reading              \* the last value an entity property returned

apiVars == <<username, access_token, refresh_token, token_expires_at,
             _last_request_time, _request_lock, issued, setup_pc, sends,
             budget, proc, last_completion, session>>

viewVars == <<device_data, zone_adapter, updates, reading,
             command, profile_data>>

vars == <<apiVars, viewVars>>

tokenVars == <<username, access_token, refresh_token, token_expires_at>>

\* ------------------------------------------------------- pure helpers

\* response.raise_for_status(): statuses of 400 and above raise.
IsErrorStatus(status) == status \in {"401", "403", "429", "500"}

\* _request, the rate gate: seconds to sleep before going on.
GateWait(t, last) ==
    IF last = None THEN 0
    ELSE IF t - last < MIN_REQUEST_INTERVAL
         THEN MIN_REQUEST_INTERVAL - (t - last)
         ELSE 0

\* Variant: the stamp is taken when the attempt is sent.
CompletionStamp_atSend(t, latency) == t - latency

\* _request stamps the time at which the successful answer has been read,
\* latency seconds after the attempt was sent.
CompletionStamp(t, latency) == t

\* _ensure_token_valid: the refresh condition.
NearExpiry(t, expires) ==
    expires # None /\ t + TOKEN_EXPIRY_MARGIN >= expires

\* refresh_access_token: `if not self.refresh_token`.
HasRefreshToken(tok) == tok # None

\* `attempt < max_retries - 1` in the 429 branches.
RateLimitMayRetry(attempt) == attempt < MAX_RETRIES - 1

\* Variant: a timeout is never retried.
TimeoutMayRetry_never(attempt) == FALSE

\* Variant: a timeout is retried on the last attempt as well.
TimeoutMayRetry_lastToo(attempt) == attempt < MAX_RETRIES

\* `attempt < max_retries - 1` in the timeout handlers.
TimeoutMayRetry(attempt) == attempt < MAX_RETRIES - 1

\* Variant: the delay is not doubled.
NextRetryDelay_constant(delay) == delay

\* `retry_delay *= 2`
NextRetryDelay(delay) == delay * 2

\* Variant: the lock is handed out while held.
LockFree_always(lock) == TRUE

\* `async with self._request_lock`: the lock can be taken when nobody holds it.
LockFree(lock) == lock = None

\* Variant: the headers are built before the token check.
BearerToken_beforeCheck(before, after) == before

\* The token _request puts in its Authorization header: the headers are built
\* after _ensure_token_valid returned, from the token stored then.
BearerToken(before, after) == after

\* response.json() of aiohttp raises ContentTypeError, a ClientResponseError
\* that carries the status of the response, when the content type is not JSON.
JsonRaises(outcome) == outcome = "200_nojson"

\* login: what the try body raises for an outcome ("" when it returns).
LoginRaised(outcome) ==
    CASE outcome = "403" -> KumoCloudAuthError
      [] outcome = "timeout" -> "TimeoutError"
      [] outcome = "conn_error" -> ClientConnectionError
      [] IsErrorStatus(outcome) -> "ClientResponseError"
      [] JsonRaises(outcome) -> "ClientResponseError"
      [] outcome \in {"200_no_access", "200_no_refresh"} -> KeyError
      [] OTHER -> ""

\* Variant: the username is stored before the POST is sent.
LoginAssigned_usernameFirst(outcome) ==
    CASE outcome = "200" ->
            {"username", "access_token", "refresh_token", "token_expires_at"}
      [] outcome = "200_no_refresh" -> {"username", "access_token"}
      [] OTHER -> {"username"}

\* login: the fields assigned by lines 94-99 before the body returns or
\* raises.  result["token"]["access"] and result["token"]["refresh"] raise
\* KeyError in the middle of the assignments.
LoginAssigned(outcome) ==
    CASE outcome = "200" ->
            {"username", "access_token", "refresh_token", "token_expires_at"}
      [] outcome = "200_no_access" -> {"username"}
      [] outcome = "200_no_refresh" -> {"username", "access_token"}
      [] OTHER -> {}

\* login: the except clauses, in order.  KumoCloudAuthError raised inside the
\* try body matches neither of the first two and lands in `except Exception`;
\* CancelledError is a BaseException and matches none of them.
LoginHandler(exc, status) ==
    CASE exc = "TimeoutError" -> KumoCloudConnectionError
      [] exc = "ClientResponseError" ->
            IF status = "403" THEN KumoCloudAuthError
            ELSE KumoCloudConnectionError
      [] exc = CancelledError -> CancelledError
      [] OTHER -> KumoCloudConnectionError

\* Variant: a 401 is handled like a 429.
RefreshDisposition_401AsRateLimit(outcome, attempt) ==
    CASE outcome \in {"401", "429"} ->
            IF RateLimitMayRetry(attempt) THEN "backoff"
            ELSE KumoCloudConnectionError
      [] outcome = "timeout" ->
            IF TimeoutMayRetry(attempt) THEN "retry"
            ELSE KumoCloudConnectionError
      [] outcome = "conn_error" -> ClientConnectionError
      [] IsErrorStatus(outcome) -> KumoCloudConnectionError
      [] JsonRaises(outcome) -> KumoCloudConnectionError
      [] outcome \in {"200_no_access", "200_no_refresh"} -> KeyError
      [] OTHER -> "success"

\* refresh_access_token: the fields assigned by lines 155-159 before the
\* body returns or raises KeyError.
RefreshAssigned(outcome) ==
    CASE outcome = "200" ->
            {"access_token", "refresh_token", "token_expires_at"}
      [] outcome = "200_no_refresh" -> {"access_token"}
      [] OTHER -> {}

\* refresh_access_token: one pass of the retry loop.  The result is
\* "success", "backoff" (sleep retry_delay, then next attempt), "retry"
\* (next attempt at once) or the exception the call ends with.  No handler
\* of the loop matches a connection failure or a KeyError.
RefreshDisposition(outcome, attempt) ==
    CASE outcome = "401" -> KumoCloudAuthError
      [] outcome = "429" ->
            IF RateLimitMayRetry(attempt) THEN "backoff"
            ELSE KumoCloudConnectionError
      [] outcome = "timeout" ->
            IF TimeoutMayRetry(attempt) THEN "retry"
            ELSE KumoCloudConnectionError
      [] outcome = "conn_error" -> ClientConnectionError
      [] IsErrorStatus(outcome) -> KumoCloudConnectionError
      [] JsonRaises(outcome) -> KumoCloudConnectionError
      [] outcome \in {"200_no_access", "200_no_refresh"} -> KeyError
      [] OTHER -> "success"

\* Variant: the 401 test of the handler never matches.
IsAuthFailure_never(status) == FALSE

\* _request: `if err.status == 401` in the ClientResponseError handler.
IsAuthFailure(status) == status = "401"

\* _request: one pass of the retry loop, as for RefreshDisposition.
RequestDisposition(outcome, attempt) ==
    CASE outcome = "429" ->
            IF RateLimitMayRetry(attempt) THEN "backoff"
            ELSE KumoCloudConnectionError
      [] outcome = "timeout" ->
            IF TimeoutMayRetry(attempt) THEN "retry"
            ELSE KumoCloudConnectionError
      [] outcome = "conn_error" -> ClientConnectionError
      [] IsErrorStatus(outcome) ->
            IF IsAuthFailure(outcome) THEN KumoCloudAuthError
            ELSE KumoCloudConnectionError
      [] OTHER -> "success"

\* _request: the body of a response that passed raise_for_status.  GET
\* decodes it with response.json() whatever the content type, POST only when
\* the content type is JSON and takes {} otherwise; the ContentTypeError goes
\* to the ClientResponseError handler with the status of the response.
DecodeDisposition(method, outcome) ==
    IF JsonRaises(outcome) /\ method = "GET"
    THEN IF IsAuthFailure("200") THEN KumoCloudAuthError
         ELSE KumoCloudConnectionError
    ELSE "success"

\* Variant: the completion is recorded for every answer.
RecordsCompletion_always(d) == TRUE

\* _request: `self._last_request_time = datetime.now()` stands in the
\* success branch, after the body has been decoded.
RecordsCompletion(d) == d = "success"

\* ------------------------------------------------------------ snapshots
\* The entities of climate.py and sensor.py read two caches that the
\* coordinator fills: the device snapshot and the adapter object embedded in
\* the zone.  A cache is a dict: a function whose domain is the set of keys
\* it holds.

Fields ==
    {"roomTemp", "spCool", "spHeat", "humidity", "fanSpeed", "airDirection",
     "power", "operationMode"}

\* Vendor operation modes (const.py) and the modes of Home Assistant.
OPERATION_MODE_OFF == "off"
OPERATION_MODE_COOL == "cool"
OPERATION_MODE_HEAT == "heat"
OPERATION_MODE_DRY == "dry"
OPERATION_MODE_VENT == "vent"
OPERATION_MODE_AUTO == "auto"

\* Python's None as the value of a field.
NoneOf(f) == IF f \in {"fanSpeed", "airDirection", "operationMode"}
             THEN "None" ELSE None

\* The values a field is seen with: temperatures in whole degrees, a JSON
\* null where the vendor sends one (Python's None), and for the enumerations
\* a value that the tables do not know.  A JSON false is Python's False,
\* which is the integer 0.
FieldValues(f) ==
    CASE f = "roomTemp" -> {21, 24}
      [] f = "spCool" -> {22, 26, NoneOf(f)}
      [] f = "spHeat" -> {18, 20, NoneOf(f)}
      [] f = "humidity" -> {40, 55}
      [] f = "power" -> {0, 1, NoneOf(f)}
      [] f = "fanSpeed" -> {"superQuiet", "powerful", "turbo"}
      [] f = "airDirection" -> {"swing", "vertical", "wide"}
      [] f = "operationMode" ->
            {OPERATION_MODE_OFF, OPERATION_MODE_COOL, OPERATION_MODE_HEAT,
             OPERATION_MODE_DRY, OPERATION_MODE_VENT, OPERATION_MODE_AUTO,
             "autoHeat"}

NoData == [f \in {} |-> None]
NoReading == [reader |-> "none", value |-> None]
NoCommand == [call |-> "none", arg |-> None, commands |-> NoData]

\* self.device.profile_data: None before a profile is cached, else the list
\* the profile endpoint returned or a bare dict of capability flags.
NoProfile == [form |-> "none", items |-> <<>>]

\* dict.get(key, default)
Get(d, key, default) == IF key \in DOMAIN d THEN d[key] ELSE default

\* d[key] = value
Put(d, key, value) ==
    [k \in DOMAIN d \cup {key} |-> IF k = key THEN value ELSE d[k]]

API_TO_UI_FAN ==
    ("auto" :> "auto") @@ ("superQuiet" :> "quiet") @@ ("quiet" :> "low")
    @@ ("low" :> "medium") @@ ("powerful" :> "high")
    @@ ("superPowerful" :> "powerful")

\* Variant: the labels are sent as they are.
UI_TO_API_FAN_unrelabelled ==
    [x \in {"auto", "quiet", "low", "medium", "high", "powerful"} |-> x]

UI_TO_API_FAN ==
    ("auto" :> "auto") @@ ("quiet" :> "superQuiet") @@ ("low" :> "quiet")
    @@ ("medium" :> "low") @@ ("high" :> "powerful")
    @@ ("powerful" :> "superPowerful")

UI_FAN_ORDER == <<"auto", "quiet", "low", "medium", "high", "powerful">>

API_TO_UI_VANE ==
    ("auto" :> "auto") @@ ("swing" :> "swing") @@ ("vertical" :> "lowest")
    @@ ("midvertical" :> "low") @@ ("midpoint" :> "middle")
    @@ ("midhorizontal" :> "high") @@ ("horizontal" :> "highest")

UI_TO_API_VANE ==
    ("auto" :> "auto") @@ ("swing" :> "swing") @@ ("lowest" :> "vertical")
    @@ ("low" :> "midvertical") @@ ("middle" :> "midpoint")
    @@ ("high" :> "midhorizontal") @@ ("highest" :> "horizontal")

UI_VANE_ORDER ==
    <<"auto", "swing", "lowest", "low", "middle", "high", "highest">>

KUMO_TO_HVAC_MODE ==
    (OPERATION_MODE_OFF :> "off") @@ (OPERATION_MODE_COOL :> "cool")
    @@ (OPERATION_MODE_HEAT :> "heat") @@ (OPERATION_MODE_DRY :> "dry")
    @@ (OPERATION_MODE_VENT :> "fan_only")
    @@ (OPERATION_MODE_AUTO :> "heat_cool")

\* Variant: a mode of Home Assistant is sent under its own name.
HVAC_TO_KUMO_MODE_sameNames ==
    [h \in {KUMO_TO_HVAC_MODE[k] : k \in DOMAIN KUMO_TO_HVAC_MODE} |-> h]

\* {v: k for k, v in KUMO_TO_HVAC_MODE.items()}
HVAC_TO_KUMO_MODE ==
    [h \in {KUMO_TO_HVAC_MODE[k] : k \in DOMAIN KUMO_TO_HVAC_MODE} |->
        CHOOSE k \in DOMAIN KUMO_TO_HVAC_MODE : KUMO_TO_HVAC_MODE[k] = h]

\* ------------------------------------------------------- caller locals

IdleProc ==
    [pc |-> "idle", op |-> "none", method |-> "none", result |-> "none",
     cancelled_at |-> "none",
     attempt |-> 0, retry_delay |-> 0, wake |-> None,
     bearer |-> None,
     start_tok |-> None, start_near |-> FALSE,
     rf_sent |-> 0, rf_outs |-> <<>>, rf_sleeps |-> <<>>, rf_token |-> None,
     rq_sent |-> 0, rq_outs |-> <<>>, rq_sleeps |-> <<>>,
     lg_sent |-> 0, lg_outs |-> <<>>]

\* The call of caller l ends with result res: it returns or raises to its
\* caller without suspending again ("done" is left by Return before any other
\* coroutine runs).
Finish(l, res) ==
    [l EXCEPT !.pc = "done", !.result = res, !.wake = None]

\* No coroutine is in the middle of returning.
Quiet == \A q \in Procs : proc[q].pc # "done"

\* A call that waits for the lock or sleeps has its next attempt to send.
AwaitsSend(l) ==
    l.pc \in {"acquire", "gate_sleep", "refresh_sleep", "request_sleep"}

\* Callers are interchangeable: a new call is taken by the first idle one,
\* as long as an HTTP attempt can still be sent for it and for each call
\* that waits to send one.
NextCaller(p) ==
    /\ sends + Cardinality({q \in Procs : AwaitsSend(proc[q])}) < budget
    /\ proc[p].pc = "idle"
    /\ \A q \in Procs : q < p => proc[q].pc # "idle"

\* _request, after the token check: build the headers and send attempt 1.
SendRequest(l, tok) ==
    [l EXCEPT !.pc = "request_http", !.bearer = tok, !.attempt = 0,
              !.retry_delay = INITIAL_RETRY_DELAY, !.rq_sent = 1,
              !.wake = None]

\* refresh_access_token up to its first HTTP attempt.
StartRefresh(l, rtok) ==
    IF ~HasRefreshToken(rtok) THEN Finish(l, KumoCloudAuthError)
    ELSE [l EXCEPT !.pc = "refresh_http", !.attempt = 0,
                   !.retry_delay = INITIAL_RETRY_DELAY, !.rf_sent = 1,
                   !.wake = None]

\* _ensure_token_valid followed by the rest of _request up to the first
\* suspension: no token fails, a token near expiry starts the inline refresh,
\* any other token is sent.
EnsureTokenValid(l) ==
    IF access_token = None THEN Finish(l, KumoCloudAuthError)
    ELSE IF NearExpiry(now, token_expires_at)
         THEN StartRefresh(l, refresh_token)
         ELSE SendRequest(l, BearerToken(access_token, access_token))

\* Variant: a cancellation does not run the exit of the `async with` block.
LockAfter_keptOnCancel(p, l, nl) ==
    IF l.op = "request" /\ nl.pc = "done" /\ nl.result # CancelledError
    THEN None ELSE _request_lock

\* The lock after a step that took caller p from l to nl: leaving the
\* `async with` block of _request releases it.
LockAfter(p, l, nl) ==
    IF l.op = "request" /\ nl.pc = "done" THEN None ELSE _request_lock

\* ------------------------------------------------------------------ Init
\* KumoCloudAPI.__init__
InitApi ==
    /\ username = None
    /\ access_token = None
    /\ refresh_token = None
    /\ token_expires_at = None
    /\ _last_request_time = None
    /\ _request_lock = None
    /\ issued = 0
    /\ setup_pc = "start"
    /\ sends = 0
    /\ budget = MaxSends
    /\ proc = [p \in Procs |-> IdleProc]
    /\ last_completion = None
    /\ session = "none"

\* The client as constructed, and an entity whose caches are still empty.
Init ==
    /\ InitApi
    /\ device_data = NoData
    /\ zone_adapter = NoData
    /\ updates = 0
    /\ reading = NoReading
    /\ command = NoCommand
    /\ profile_data = NoProfile

\* ------------------------------------------------------------------ time

InFlight(l) == l.pc \in {"login_http", "refresh_http", "request_http"}
Backoff(l) == l.pc \in {"refresh_sleep", "request_sleep"}
Sleeping(l) == l.pc = "gate_sleep" \/ Backoff(l)

\* A timestamp t after d seconds have passed, not older than floor.
Shift(t, d, floor) ==
    IF t = None THEN None
    ELSE IF t - d < floor THEN floor ELSE t - d

\* The stored timestamps after d seconds have passed.  An expiry that stays
\* further from its margin than the longest backoff sleep is as far as it
\* was: no sleep under way ends after it, and the clock reaches it in
\* Advance.
AgedExpiry(d) ==
    IF /\ token_expires_at # None
       /\ token_expires_at - d - TOKEN_EXPIRY_MARGIN - now
             > NextRetryDelay(INITIAL_RETRY_DELAY)
    THEN token_expires_at
    ELSE Shift(token_expires_at, d, now + TOKEN_EXPIRY_MARGIN - 1)
AgedStamp(t, d) == Shift(t, d, now - MIN_REQUEST_INTERVAL)

\* The sleep deadlines after d seconds have passed.  asyncio.sleep returns no
\* earlier than asked and may return later: a duration shorter than the
\* shortest backoff is not counted against a backoff sleep, which then ends
\* that much later.
AgedWake(w, d) ==
    IF /\ w # None
       /\ w - now > MIN_REQUEST_INTERVAL
       /\ d < INITIAL_RETRY_DELAY
    THEN w
    ELSE Shift(w, d, now)

AgedProcs(d) ==
    [q \in Procs |-> [proc[q] EXCEPT !.wake = AgedWake(@, d)]]

\* A step from l to nl sends an HTTP attempt when it ends in flight, other
\* than by having started a backoff sleep or returned.
SentBy(l, nl) ==
    IF nl.pc \in {"login_http", "refresh_http", "request_http"} THEN 1 ELSE 0

\* _ensure_session: a session is created when there is none or when the one
\* there is has been closed.
EnsureSession(s) == IF s = "none" \/ s = "closed" THEN "open" ELSE s

\* Caller p goes on with locals nl, d seconds after the previous step.  Every
\* path of the code to an HTTP attempt has passed _ensure_session.
Step(p, nl, d) ==
    /\ proc' = [AgedProcs(d) EXCEPT ![p] = nl]
    /\ sends' = sends + SentBy(proc[p], nl)
    /\ sends' <= budget
    /\ session' = IF SentBy(proc[p], nl) = 1 THEN EnsureSession(session)
                  ELSE session

\* The durations the clock moves by between two steps of the callers: a
\* second while the rate gate's interval is running and, with no HTTP call
\* in flight, the time to the next sleep deadline and to the instant the
\* stored token gets near its expiry.  (The time an HTTP call takes passes
\* in the step that receives its answer.)
NextDurations ==
    LET flying == {p \in Procs : InFlight(proc[p])}
        tick == IF /\ _last_request_time # None
                   /\ now - _last_request_time < MIN_REQUEST_INTERVAL
                THEN {1} ELSE {}
        wakes == {proc[p].wake - now :
                     p \in {q \in Procs : Sleeping(proc[q])}}
        expiry == IF token_expires_at # None
                  THEN {token_expires_at - TOKEN_EXPIRY_MARGIN - now}
                  ELSE {}
    IN tick \cup (IF flying = {}
                  THEN {d \in wakes \cup expiry : d > 0} ELSE {})

Advance ==
    /\ Quiet
    /\ \E d \in NextDurations :
         /\ token_expires_at' = AgedExpiry(d)
         /\ _last_request_time' = AgedStamp(_last_request_time, d)
         /\ last_completion' = AgedStamp(last_completion, d)
         /\ proc' = AgedProcs(d)
    /\ UNCHANGED <<username, access_token, refresh_token, _request_lock,
                   issued, setup_pc, sends, session>>
    /\ UNCHANGED <<budget, viewVars>>

\* --------------------------------------------------------------- actions

\* async_setup_entry, lines 24-31: a new client, which takes the username and
\* the two tokens from the config entry when the entry stores them.
AsyncSetupEntry(stored) ==
    /\ setup_pc = "start"
    /\ setup_pc' = "done"
    /\ IF stored
       THEN /\ username' = 1
            /\ access_token' = 1
            /\ refresh_token' = 1
            /\ issued' = 1
       ELSE UNCHANGED <<username, access_token, refresh_token, issued>>
    /\ UNCHANGED <<token_expires_at, _last_request_time, _request_lock,
                   sends, proc, last_completion, session>>
    /\ UNCHANGED <<budget, viewVars>>

\* A caller enters _request and queues on the lock.
CallRequest(p) ==
    /\ Quiet
    /\ setup_pc = "done"
    /\ NextCaller(p)
    /\ Step(p, [IdleProc EXCEPT !.pc = "acquire", !.op = "request",
                     !.start_tok = access_token,
                     !.start_near = /\ access_token # None
                                    /\ token_expires_at # None
                                    /\ now + TOKEN_EXPIRY_MARGIN
                                          >= token_expires_at], 0)
    /\ UNCHANGED <<tokenVars, _last_request_time, _request_lock, issued,
                   setup_pc, last_completion>>
    /\ UNCHANGED <<budget, viewVars>>

\* _request: the lock is taken, the rate gate computes its wait and either
\* sleeps or goes on to the token check.
AcquireLock(p) ==
    /\ Quiet
    /\ proc[p].pc = "acquire"
    /\ LockFree(_request_lock)
    /\ LET w == GateWait(now, _last_request_time)
           l == proc[p]
           nl == IF w > 0
                 THEN [l EXCEPT !.pc = "gate_sleep", !.wake = now + w]
                 ELSE EnsureTokenValid(l)
       IN /\ Step(p, nl, 0)
          /\ _request_lock' = IF nl.pc = "done" THEN None ELSE p
    /\ UNCHANGED <<tokenVars, _last_request_time, issued, setup_pc,
                   last_completion>>
    /\ UNCHANGED <<budget, viewVars>>

\* _request: the rate-gate sleep is over; token check and first attempt.
GateWake(p) ==
    /\ Quiet
    /\ proc[p].pc = "gate_sleep"
    /\ now >= proc[p].wake
    /\ LET nl == EnsureTokenValid(proc[p])
       IN /\ Step(p, nl, 0)
          /\ _request_lock' = LockAfter(p, proc[p], nl)
    /\ UNCHANGED <<tokenVars, _last_request_time, issued, setup_pc,
                   last_completion>>
    /\ UNCHANGED <<budget, viewVars>>

\* A caller calls login: the POST is sent, without taking the lock.
CallLogin(p) ==
    /\ Quiet
    /\ setup_pc = "done"
    /\ NextCaller(p)
    /\ Step(p, [IdleProc EXCEPT !.pc = "login_http", !.op = "login",
                                !.lg_sent = 1], 0)
    /\ UNCHANGED <<tokenVars, _last_request_time, _request_lock, issued,
                   setup_pc, last_completion>>
    /\ UNCHANGED <<budget, viewVars>>

\* login: the answer to the POST, lat seconds later.
LoginResponse(p, outcome, lat) ==
    /\ Quiet
    /\ proc[p].pc = "login_http"
    /\ LET l == [proc[p] EXCEPT !.lg_outs = Append(@, outcome)]
           exc == LoginRaised(outcome)
           asg == LoginAssigned(outcome)
           tok == issued + 1
       IN /\ Step(p, Finish(l, IF exc = "" THEN "ok"
                                ELSE LoginHandler(exc, outcome)), lat)
          /\ username' = IF "username" \in asg THEN 1 ELSE username
          /\ access_token' =
                IF "access_token" \in asg THEN tok ELSE access_token
          /\ refresh_token' =
                IF "refresh_token" \in asg THEN tok ELSE refresh_token
          /\ token_expires_at' =
                IF "token_expires_at" \in asg
                THEN now + TOKEN_REFRESH_INTERVAL ELSE AgedExpiry(lat)
          /\ issued' = IF "access_token" \in asg THEN tok ELSE issued
    /\ _last_request_time' = AgedStamp(_last_request_time, lat)
    /\ last_completion' = AgedStamp(last_completion, lat)
    /\ UNCHANGED <<_request_lock, setup_pc>>
    /\ UNCHANGED <<budget, viewVars>>

\* A caller calls refresh_access_token directly, without taking the lock.
CallRefresh(p) ==
    /\ Quiet
    /\ setup_pc = "done"
    /\ NextCaller(p)
    /\ Step(p, StartRefresh([IdleProc EXCEPT !.op = "refresh"],
                            refresh_token), 0)
    /\ UNCHANGED <<tokenVars, _last_request_time, _request_lock, issued,
                   setup_pc, last_completion>>
    /\ UNCHANGED <<budget, viewVars>>

\* refresh_access_token: the answer to one attempt of the POST, lat seconds
\* later.  Called inline by _request, a success goes on to the request's own
\* first attempt.
RefreshResponse(p, outcome, lat) ==
    /\ Quiet
    /\ proc[p].pc = "refresh_http"
    /\ LET l == [proc[p] EXCEPT !.rf_outs = Append(@, outcome)]
           d == RefreshDisposition(outcome, l.attempt)
           asg == RefreshAssigned(outcome)
           tok == issued + 1
           nl == CASE d = "success" ->
                        IF l.op = "request"
                        THEN SendRequest([l EXCEPT !.rf_token = tok,
                                                   !.rf_sent = 0,
                                                   !.rf_outs = <<>>,
                                                   !.rf_sleeps = <<>>],
                                         BearerToken(access_token, tok))
                        ELSE Finish([l EXCEPT !.rf_token = tok], "ok")
                   [] d = "backoff" ->
                        [l EXCEPT !.pc = "refresh_sleep",
                                  !.wake = now + l.retry_delay,
                                  !.rf_sleeps = Append(@, l.retry_delay)]
                   [] d = "retry" ->
                        [l EXCEPT !.attempt = @ + 1, !.rf_sent = @ + 1]
                   [] OTHER -> Finish(l, d)
       IN /\ Step(p, nl, lat)
          /\ _request_lock' = LockAfter(p, l, nl)
          /\ access_token' =
                IF "access_token" \in asg THEN tok ELSE access_token
          /\ refresh_token' =
                IF "refresh_token" \in asg THEN tok ELSE refresh_token
          /\ token_expires_at' =
                IF "token_expires_at" \in asg
                THEN now + TOKEN_REFRESH_INTERVAL ELSE AgedExpiry(lat)
          /\ issued' = IF "access_token" \in asg THEN tok ELSE issued
          /\ UNCHANGED username
    /\ _last_request_time' = AgedStamp(_last_request_time, lat)
    /\ last_completion' = AgedStamp(last_completion, lat)
    /\ UNCHANGED setup_pc
    /\ UNCHANGED <<budget, viewVars>>

\* refresh_access_token: the 429 backoff sleep is over; next attempt.
RefreshWake(p) ==
    /\ Quiet
    /\ proc[p].pc = "refresh_sleep"
    /\ now >= proc[p].wake
    /\ Step(p, [proc[p] EXCEPT !.pc = "refresh_http",
                               !.retry_delay = NextRetryDelay(@),
                               !.attempt = @ + 1, !.rf_sent = @ + 1,
                               !.wake = None], 0)
    /\ UNCHANGED <<tokenVars, _last_request_time, _request_lock, issued,
                   setup_pc, last_completion>>
    /\ UNCHANGED <<budget, viewVars>>

\* _request: the answer to one attempt of the authenticated call, lat
\* seconds later.  The call was made with method m; the one place where the
\* two methods are treated differently is the decoding of an answer that
\* passed raise_for_status, and the method is drawn and recorded there.
RequestResponse(p, m, outcome, lat) ==
    /\ Quiet
    /\ proc[p].pc = "request_http"
    /\ LET passed == RequestDisposition(outcome, proc[p].attempt)
           l == [proc[p] EXCEPT !.rq_outs = Append(@, outcome),
                                !.method = IF passed = "success" THEN m
                                           ELSE @]
           d == IF passed = "success"
                THEN DecodeDisposition(m, outcome) ELSE passed
           nl == CASE d = "success" -> Finish(l, "ok")
                   [] d = "backoff" ->
                        [l EXCEPT !.pc = "request_sleep",
                                  !.wake = now + l.retry_delay,
                                  !.rq_sleeps = Append(@, l.retry_delay)]
                   [] d = "retry" ->
                        [l EXCEPT !.attempt = @ + 1, !.rq_sent = @ + 1]
                   [] OTHER -> Finish(l, d)
       IN /\ Step(p, nl, lat)
          /\ _request_lock' = LockAfter(p, l, nl)
          /\ _last_request_time' =
                IF RecordsCompletion(d) THEN CompletionStamp(now, lat)
                ELSE AgedStamp(_last_request_time, lat)
          /\ last_completion' =
                IF d = "success" THEN now
                ELSE AgedStamp(last_completion, lat)
    /\ token_expires_at' = AgedExpiry(lat)
    /\ UNCHANGED <<username, access_token, refresh_token, issued, setup_pc>>
    /\ UNCHANGED <<budget, viewVars>>

\* _request: the 429 backoff sleep is over; next attempt, same headers.
RequestWake(p) ==
    /\ Quiet
    /\ proc[p].pc = "request_sleep"
    /\ now >= proc[p].wake
    /\ Step(p, [proc[p] EXCEPT !.pc = "request_http",
                               !.retry_delay = NextRetryDelay(@),
                               !.attempt = @ + 1, !.rq_sent = @ + 1,
                               !.wake = None], 0)
    /\ UNCHANGED <<tokenVars, _last_request_time, _request_lock, issued,
                   setup_pc, last_completion>>
    /\ UNCHANGED <<budget, viewVars>>

\* What a cancelled call ends with: the sleeps re-raise CancelledError and
\* no handler of refresh_access_token or _request matches it elsewhere; in
\* login it passes the except clauses.
CancelRaised(l) ==
    IF l.op = "login" THEN LoginHandler(CancelledError, "")
    ELSE CancelledError

\* The caller's task is cancelled while the call is suspended: waiting for
\* the lock, asleep at the rate gate or in a backoff, or in HTTP I/O.  The
\* exception unwinds the call, whose locals go; the place it was cancelled at
\* is kept for the record.
Cancel(p) ==
    /\ Quiet
    /\ proc[p].pc \in {"acquire", "gate_sleep", "login_http", "refresh_http",
                       "refresh_sleep", "request_http", "request_sleep"}
    /\ LET l == proc[p]
           nl == [IdleProc EXCEPT !.pc = "done", !.op = l.op,
                                  !.cancelled_at = l.pc,
                                  !.result = CancelRaised(l)]
       IN /\ Step(p, nl, 0)
          /\ _request_lock' = IF l.pc = "acquire" THEN _request_lock
                              ELSE LockAfter(p, l, nl)
    /\ UNCHANGED <<tokenVars, _last_request_time, issued, setup_pc,
                   last_completion>>
    /\ UNCHANGED <<budget, viewVars>>

\* The finished call hands its result to its caller; the caller's locals go.
Return(p) ==
    /\ proc[p].pc = "done"
    /\ proc' = [proc EXCEPT ![p] = IdleProc]
    /\ UNCHANGED <<tokenVars, _last_request_time, _request_lock, issued,
                   setup_pc, sends, last_completion, session>>
    /\ UNCHANGED <<budget, viewVars>>

\* close: the session is closed when it is open.  The caller closes the
\* client when it has no call under way.
Close ==
    /\ Quiet
    /\ \A p \in Procs : proc[p].pc = "idle"
    /\ session = "open"
    /\ session' = "closed"
    /\ UNCHANGED <<tokenVars, _last_request_time, _request_lock, issued,
                   setup_pc, sends, proc, last_completion>>
    /\ UNCHANGED <<budget, viewVars>>

\* An answer comes within the second or takes MaxLatency seconds.
Latencies == {0, MaxLatency}

Next ==
    \/ \E stored \in BOOLEAN : AsyncSetupEntry(stored)
    \/ \E p \in Procs : CallRequest(p)
    \/ \E p \in Procs : AcquireLock(p)
    \/ \E p \in Procs : GateWake(p)
    \/ \E p \in Procs : CallLogin(p)
    \/ \E p \in Procs : \E o \in LoginOutcomes : \E lat \in Latencies :
          LoginResponse(p, o, lat)
    \/ \E p \in Procs : CallRefresh(p)
    \/ \E p \in Procs : \E o \in RefreshOutcomes : \E lat \in Latencies :
          RefreshResponse(p, o, lat)
    \/ \E p \in Procs : RefreshWake(p)
    \/ \E p \in Procs : \E m \in Methods : \E o \in RequestOutcomes :
          \E lat \in Latencies : RequestResponse(p, m, o, lat)
    \/ \E p \in Procs : RequestWake(p)
    \/ \E p \in Procs : Cancel(p)
    \/ \E p \in Procs : Return(p)
    \/ Advance

Spec == Init /\ [][Next]_vars

\* The same client, which its owner may also close.
NextWithClose ==
    \/ Next
    \/ Close

SpecClose == Init /\ [][NextWithClose]_vars

\* ------------------------------------------------- retries and the lock

\* The attempts one _request call sends at most: max_retries of the inline
\* refresh and max_retries of its own HTTP call.
CallSends == MAX_RETRIES + MAX_RETRIES

Active == {q \in Procs : proc[q].pc \notin {"idle", "done"}}

\* Answers of the transport that the retry loops tell apart: success, the
\* 401 and the other error statuses, the 429 and the timeout.
RetryAnswers == {"200", "401", "429", "500", "timeout"}

\* The client some time after a login that succeeded in this process (lines
\* 97-104: the two tokens and the expiry are set), when the token has come
\* to its expiry margin: the next call refreshes it inline.
InitRetry ==
    /\ username = 1
    /\ access_token = 1
    /\ refresh_token = 1
    /\ token_expires_at = now + TOKEN_EXPIRY_MARGIN
    /\ _last_request_time = None
    /\ _request_lock = None
    /\ issued = 1
    /\ setup_pc = "done"
    /\ sends = 0
    /\ budget = RetrySends
    /\ proc = [p \in Procs |-> IdleProc]
    /\ last_completion = None
    /\ session = "open"
    /\ device_data = NoData
    /\ zone_adapter = NoData
    /\ updates = 0
    /\ reading = NoReading
    /\ command = NoCommand
    /\ profile_data = NoProfile

\* A caller enters _request while the attempts left are enough for its call
\* and for every call under way, whatever the transport answers them.
CallRequestToEnd(p) ==
    /\ sends + CallSends * (Cardinality(Active) + 1) <= budget
    /\ CallRequest(p)

\* Callers of _request that nobody cancels, and a transport free to answer
\* every attempt with any outcome.
NextRetry ==
    \/ \E p \in Procs : CallRequestToEnd(p)
    \/ \E p \in Procs : AcquireLock(p)
    \/ \E p \in Procs : GateWake(p)
    \/ \E p \in Procs : \E o \in RetryAnswers : \E lat \in Latencies :
          RefreshResponse(p, o, lat)
    \/ \E p \in Procs : RefreshWake(p)
    \/ \E p \in Procs : \E m \in Methods : \E o \in RetryAnswers :
          \E lat \in Latencies : RequestResponse(p, m, o, lat)
    \/ \E p \in Procs : RequestWake(p)
    \/ \E p \in Procs : Return(p)
    \/ Advance

\* Scheduling: the event loop runs every coroutine that is ready, the clock
\* moves, and every HTTP attempt is answered or runs into the session's
\* total timeout (ClientTimeout(total=45), line 49).  asyncio.Lock wakes its
\* waiters in the order they came, so a caller that waits while the lock is
\* released again and again gets it.
FairRetry ==
    /\ WF_vars(Advance)
    /\ \A p \in Procs :
         /\ SF_vars(AcquireLock(p))
         /\ WF_vars(GateWake(p))
         /\ WF_vars(\E o \in RetryAnswers : \E lat \in Latencies :
                       RefreshResponse(p, o, lat))
         /\ WF_vars(RefreshWake(p))
         /\ WF_vars(\E m \in Methods : \E o \in RetryAnswers :
                       \E lat \in Latencies : RequestResponse(p, m, o, lat))
         /\ WF_vars(RequestWake(p))
         /\ WF_vars(Return(p))

SpecRetry == InitRetry /\ [][NextRetry]_vars /\ FairRetry

\* ----------------------------------------------------- the setup flow

\* async_setup_entry is one task; its calls to the client are caller 1's.
SetupCaller == 1

\* The outcomes async_setup_entry raises from its except clauses.
ConfigEntryAuthFailed == "ConfigEntryAuthFailed"
ConfigEntryNotReady == "ConfigEntryNotReady"

\* `await api.login(...)`: the POST is sent.
SetupLogin ==
    Step(SetupCaller,
         [IdleProc EXCEPT !.pc = "login_http", !.op = "login",
                          !.lg_sent = 1], 0)

\* async_setup_entry, lines 35-40: with no access token the flow logs in,
\* with one it probes it with get_account_info, a GET through _request.
SetupValidate ==
    /\ setup_pc = "done"
    /\ proc[SetupCaller].pc = "idle"
    /\ IF access_token = None
       THEN /\ SetupLogin
            /\ setup_pc' = "login"
       ELSE /\ Step(SetupCaller,
                    [IdleProc EXCEPT !.pc = "acquire", !.op = "request",
                                     !.start_tok = access_token,
                                     !.start_near =
                                        /\ token_expires_at # None
                                        /\ now + TOKEN_EXPIRY_MARGIN
                                              >= token_expires_at], 0)
            /\ setup_pc' = "probe"
    /\ UNCHANGED <<tokenVars, _last_request_time, _request_lock, issued,
                   last_completion>>
    /\ UNCHANGED <<budget, viewVars>>

\* What async_setup_entry does with an exception of its try block, lines
\* 45-48: the two errors of the client are turned into the two outcomes,
\* any other exception leaves async_setup_entry as it is.
SetupRaised(exception) ==
    CASE exception = KumoCloudAuthError -> ConfigEntryAuthFailed
      [] exception = KumoCloudConnectionError -> ConfigEntryNotReady
      [] OTHER -> exception

\* async_setup_entry, lines 37-48, at the return of the call it awaited: a
\* probe that failed with KumoCloudAuthError is followed by a login (lines
\* 41-43); a call that succeeded lets the flow go on to the coordinator;
\* any other end goes through the outer except clauses.
SetupResumes ==
    /\ setup_pc \in {"login", "probe"}
    /\ proc[SetupCaller].pc = "done"
    /\ LET res == proc[SetupCaller].result
       IN IF setup_pc = "probe" /\ res = KumoCloudAuthError
          THEN /\ SetupLogin
               /\ setup_pc' = "login"
          ELSE /\ proc' = [proc EXCEPT ![SetupCaller] = IdleProc]
               /\ setup_pc' = IF res = "ok" THEN "coordinator"
                               ELSE SetupRaised(res)
               /\ UNCHANGED <<sends, session>>
    /\ UNCHANGED <<tokenVars, _last_request_time, _request_lock, issued,
                   last_completion>>
    /\ UNCHANGED <<budget, viewVars>>

\* async_setup_entry from its first line to the coordinator or to the
\* exception it raises, with the answers of the transport to its calls.
NextSetup ==
    \/ \E stored \in BOOLEAN : AsyncSetupEntry(stored)
    \/ SetupValidate
    \/ AcquireLock(SetupCaller)
    \/ \E o \in RequestOutcomes : \E lat \in Latencies :
          RequestResponse(SetupCaller, "GET", o, lat)
    \/ RequestWake(SetupCaller)
    \/ \E o \in LoginOutcomes : \E lat \in Latencies :
          LoginResponse(SetupCaller, o, lat)
    \/ SetupResumes
    \/ Advance

SpecSetup == Init /\ [][NextSetup]_vars

\* ------------------------------------------------------------- entities

\* hvac_mode, lines 223-226: the operation mode and the power it goes by.
operation_mode ==
    Get(device_data, "operationMode",
        Get(zone_adapter, "operationMode", OPERATION_MODE_OFF))

power == Get(device_data, "power", Get(zone_adapter, "power", 0))

\* KumoCloudClimate.hvac_mode
hvac_mode ==
    IF power = 0 THEN "off"
    ELSE Get(KUMO_TO_HVAC_MODE, operation_mode, "off")

\* KumoCloudClimate.current_temperature
current_temperature == Get(zone_adapter, "roomTemp", None)

\* Python's `a or b`.
Or(a, b) == IF a # None /\ a # 0 THEN a ELSE b

\* KumoCloudClimate.target_temperature
target_temperature ==
    CASE hvac_mode = "cool" -> Get(zone_adapter, "spCool", None)
      [] hvac_mode = "heat" -> Get(zone_adapter, "spHeat", None)
      [] hvac_mode = "heat_cool" ->
            Or(Get(zone_adapter, "spCool", None),
               Get(zone_adapter, "spHeat", None))
      [] OTHER -> None

\* Variant: one degree off the target already counts.
hvac_action_atOneDegree ==
    IF hvac_mode = "off" THEN "off"
    ELSE IF power = 0 THEN "off"
    ELSE CASE operation_mode = OPERATION_MODE_HEAT -> "heating"
           [] operation_mode = OPERATION_MODE_COOL -> "cooling"
           [] operation_mode = OPERATION_MODE_DRY -> "drying"
           [] operation_mode = OPERATION_MODE_VENT -> "fan"
           [] operation_mode = OPERATION_MODE_AUTO ->
                LET current_temp == current_temperature
                    target_temp == target_temperature
                    temp_diff == current_temp - target_temp
                IN IF current_temp # None /\ target_temp # None
                   THEN IF temp_diff >= 1 THEN "cooling"
                        ELSE IF temp_diff <= -1 THEN "heating"
                        ELSE "idle"
                   ELSE "idle"
           [] OTHER -> "idle"

\* KumoCloudClimate.hvac_action
hvac_action ==
    IF hvac_mode = "off" THEN "off"
    ELSE IF power = 0 THEN "off"
    ELSE CASE operation_mode = OPERATION_MODE_HEAT -> "heating"
           [] operation_mode = OPERATION_MODE_COOL -> "cooling"
           [] operation_mode = OPERATION_MODE_DRY -> "drying"
           [] operation_mode = OPERATION_MODE_VENT -> "fan"
           [] operation_mode = OPERATION_MODE_AUTO ->
                LET current_temp == current_temperature
                    target_temp == target_temperature
                    temp_diff == current_temp - target_temp
                IN IF current_temp # None /\ target_temp # None
                   THEN IF temp_diff > 1 THEN "cooling"
                        ELSE IF temp_diff < -1 THEN "heating"
                        ELSE "idle"
                   ELSE "idle"
           [] OTHER -> "idle"

\* Variant: a vendor value that the table does not know is not presented.
fan_mode_knownOnly ==
    LET fan_speed == Get(device_data, "fanSpeed",
                         Get(zone_adapter, "fanSpeed", NoneOf("fanSpeed")))
    IN Get(API_TO_UI_FAN, fan_speed, NoneOf("fanSpeed"))

\* KumoCloudClimate.fan_mode
fan_mode ==
    LET fan_speed == Get(device_data, "fanSpeed",
                         Get(zone_adapter, "fanSpeed", NoneOf("fanSpeed")))
    IN Get(API_TO_UI_FAN, fan_speed, fan_speed)

\* KumoCloudClimate.swing_mode
swing_mode ==
    LET swing == Get(device_data, "airDirection",
                     Get(zone_adapter, "airDirection",
                         NoneOf("airDirection")))
    IN Get(API_TO_UI_VANE, swing, swing)

\* KumoCloudTemperatureSensor.native_value
sensor_temperature == Get(zone_adapter, "roomTemp", None)

\* KumoCloudHumiditySensor.native_value
sensor_humidity ==
    Get(device_data, "humidity", Get(zone_adapter, "humidity", None))

\* Python's truth value of self.device.profile_data: None, an empty list and
\* an empty dict are false.
HasProfile ==
    /\ profile_data.form # "none"
    /\ Len(profile_data.items) > 0
    /\ profile_data.form = "dict" => DOMAIN profile_data.items[1] # {}

\* profile[0] if isinstance(profile, list) else profile
profile_dict == profile_data.items[1]

\* KumoCloudClimate.hvac_modes
hvac_modes ==
    IF HasProfile
    THEN <<"off">>
         \o (IF Get(profile_dict, "hasModeHeat", FALSE)
             THEN <<"heat">> ELSE <<>>)
         \o <<"cool">>
         \o (IF Get(profile_dict, "hasModeDry", FALSE)
             THEN <<"dry">> ELSE <<>>)
         \o (IF Get(profile_dict, "hasModeVent", FALSE)
             THEN <<"fan_only">> ELSE <<>>)
         \o (IF Get(profile_dict, "hasModeHeat", FALSE)
             THEN <<"heat_cool">> ELSE <<>>)
    ELSE <<"off">>

\* KumoCloudClimate.swing_modes: the vane labels, or <<>> for None
swing_modes ==
    IF ~HasProfile THEN <<>>
    ELSE IF ~(Get(profile_dict, "hasVaneDir", FALSE)
                \/ Get(profile_dict, "hasVaneSwing", FALSE))
    THEN <<>>
    ELSE UI_VANE_ORDER

\* The setpoint a command carries forward, lines 434-435.
sp_cool == Get(device_data, "spCool", Get(zone_adapter, "spCool", None))
sp_heat == Get(device_data, "spHeat", Get(zone_adapter, "spHeat", None))

\* commands[key] = value, when the value is not None
WithKnown(commands, key, value) ==
    IF value # None THEN Put(commands, key, value) ELSE commands

\* KumoCloudClimate.async_set_hvac_mode: the payload, NoData when none is sent
async_set_hvac_mode(mode) ==
    IF mode = "off" THEN ("operationMode" :> OPERATION_MODE_OFF)
    ELSE LET kumo_mode == Get(HVAC_TO_KUMO_MODE, mode, "None")
         IN IF kumo_mode # "None" /\ kumo_mode # ""
            THEN WithKnown(WithKnown(("operationMode" :> kumo_mode),
                                     "spCool", sp_cool),
                           "spHeat", sp_heat)
            ELSE NoData

\* Variant: in heat_cool both setpoints get the requested value.
async_set_temperature_noHysteresis(target_temp) ==
    IF target_temp = None THEN NoData
    ELSE CASE hvac_mode = "cool" ->
                WithKnown(("spCool" :> target_temp), "spHeat", sp_heat)
           [] hvac_mode = "heat" ->
                WithKnown(("spHeat" :> target_temp), "spCool", sp_cool)
           [] hvac_mode = "heat_cool" ->
                Put(("spCool" :> target_temp), "spHeat", target_temp)
           [] OTHER -> NoData

\* KumoCloudClimate.async_set_temperature
async_set_temperature(target_temp) ==
    IF target_temp = None THEN NoData
    ELSE CASE hvac_mode = "cool" ->
                WithKnown(("spCool" :> target_temp), "spHeat", sp_heat)
           [] hvac_mode = "heat" ->
                WithKnown(("spHeat" :> target_temp), "spCool", sp_cool)
           [] hvac_mode = "heat_cool" ->
                Put(("spCool" :> target_temp), "spHeat", target_temp - 2)
           [] OTHER -> NoData

\* KumoCloudClimate.async_set_fan_mode
async_set_fan_mode(label) ==
    ("fanSpeed" :> Get(UI_TO_API_FAN, label, label))

\* KumoCloudClimate.async_set_swing_mode
async_set_swing_mode(label) ==
    ("airDirection" :> Get(UI_TO_API_VANE, label, label))

\* KumoCloudClimate.async_turn_on
async_turn_on ==
    LET cached == Get(device_data, "operationMode",
                      Get(zone_adapter, "operationMode", OPERATION_MODE_COOL))
        mode == IF cached = OPERATION_MODE_OFF THEN OPERATION_MODE_COOL
                ELSE cached
    IN WithKnown(WithKnown(("operationMode" :> mode), "spCool", sp_cool),
                 "spHeat", sp_heat)

\* KumoCloudClimate.async_turn_off
async_turn_off == ("operationMode" :> OPERATION_MODE_OFF)

Calls ==
    {"async_set_hvac_mode", "async_set_temperature", "async_set_fan_mode",
     "async_set_swing_mode", "async_turn_on", "async_turn_off"}

\* The dict a call hands to _send_command_and_refresh.
Commands(c, arg) ==
    CASE c = "async_set_hvac_mode" -> async_set_hvac_mode(arg)
      [] c = "async_set_temperature" -> async_set_temperature(arg)
      [] c = "async_set_fan_mode" -> async_set_fan_mode(arg)
      [] c = "async_set_swing_mode" -> async_set_swing_mode(arg)
      [] c = "async_turn_on" -> async_turn_on
      [] c = "async_turn_off" -> async_turn_off

\* What a call is given: a mode of Home Assistant ("auto" has no vendor
\* mode), a temperature or none, a fan or vane label.
Arguments(c) ==
    CASE c = "async_set_hvac_mode" ->
            {"off", "cool", "heat", "dry", "fan_only", "heat_cool", "auto"}
      [] c = "async_set_temperature" -> {17, 22, 30, None}
      [] c = "async_set_fan_mode" ->
            {UI_FAN_ORDER[i] : i \in DOMAIN UI_FAN_ORDER} \cup {"turbo"}
      [] c = "async_set_swing_mode" ->
            {UI_VANE_ORDER[i] : i \in DOMAIN UI_VANE_ORDER} \cup {"wide"}
      [] OTHER -> {None}

Readers ==
    {"current_temperature", "target_temperature", "sensor_temperature",
     "sensor_humidity", "fan_mode", "swing_mode", "power", "operation_mode"}

ReaderValue(r) ==
    CASE r = "current_temperature" -> current_temperature
      [] r = "target_temperature" -> target_temperature
      [] r = "sensor_temperature" -> sensor_temperature
      [] r = "sensor_humidity" -> sensor_humidity
      [] r = "fan_mode" -> fan_mode
      [] r = "swing_mode" -> swing_mode
      [] r = "power" -> power
      [] r = "operation_mode" -> operation_mode
      [] r = "hvac_mode" -> hvac_mode
      [] r = "hvac_action" -> hvac_action
      [] r = "hvac_modes" -> hvac_modes
      [] r = "swing_modes" -> swing_modes

\* The coordinator stores a refreshed device snapshot; it differs from the
\* one before in field f.
UpdateDevice(f, v) ==
    /\ f \in DOMAIN device_data \/ updates < MaxUpdates
    /\ updates' = IF f \in DOMAIN device_data THEN updates ELSE updates + 1
    /\ device_data' = Put(device_data, f, v)
    /\ reading' = NoReading
    /\ UNCHANGED <<zone_adapter, command, profile_data, apiVars>>

\* The coordinator stores a refreshed zone; its adapter differs from the one
\* before in field f.
UpdateAdapter(f, v) ==
    /\ f \in DOMAIN zone_adapter \/ updates < MaxUpdates
    /\ updates' = IF f \in DOMAIN zone_adapter THEN updates ELSE updates + 1
    /\ zone_adapter' = Put(zone_adapter, f, v)
    /\ reading' = NoReading
    /\ UNCHANGED <<device_data, command, profile_data, apiVars>>

\* Home Assistant reads property r of the entity.
Read(r) ==
    /\ reading' = [reader |-> r, value |-> ReaderValue(r)]
    /\ command' = NoCommand
    /\ UNCHANGED <<device_data, zone_adapter, updates, profile_data, apiVars>>

NextView ==
    \/ \E f \in Fields : \E v \in FieldValues(f) : UpdateDevice(f, v)
    \/ \E f \in Fields : \E v \in FieldValues(f) : UpdateAdapter(f, v)
    \/ \E r \in Readers : Read(r)

SpecView == Init /\ [][NextView]_vars

\* Home Assistant calls service c of the entity: the payload is built from
\* the caches and handed to KumoCloudDevice.send_command.
Command(c, arg) ==
    /\ command' = [call |-> c, arg |-> arg, commands |-> Commands(c, arg)]
    /\ reading' = NoReading
    /\ UNCHANGED <<device_data, zone_adapter, updates, profile_data, apiVars>>

\* A field that a snapshot does not hold.
Missing(f) == IF f \in {"fanSpeed", "airDirection", "operationMode"}
              THEN "missing" ELSE -2

Options(f) == FieldValues(f) \cup {Missing(f)}

\* The dict with the keys that are not missing.
Cached(o) == [f \in {g \in DOMAIN o : o[g] # Missing(g)} |-> o[f]]

Held == Cardinality(DOMAIN device_data) + Cardinality(DOMAIN zone_adapter)

\* An entity over any cached state of power, mode and temperatures.
InitEntity ==
    /\ InitApi
    /\ \E dp \in Options("power"), dm \in Options("operationMode"),
          dc \in Options("spCool"), dh \in Options("spHeat") :
            device_data = Cached([power |-> dp, operationMode |-> dm,
                                  spCool |-> dc, spHeat |-> dh])
    /\ \E ap \in Options("power"), am \in Options("operationMode"),
          ac \in Options("spCool"), ah \in Options("spHeat"),
          ar \in Options("roomTemp") :
            zone_adapter = Cached([power |-> ap, operationMode |-> am,
                                   spCool |-> ac, spHeat |-> ah,
                                   roomTemp |-> ar])
    /\ Held <= MaxFields
    /\ updates = Held
    /\ reading = NoReading
    /\ command = NoCommand
    /\ profile_data = NoProfile

StateReaders ==
    {"hvac_mode", "hvac_action", "current_temperature", "target_temperature"}

StateCalls ==
    {"async_set_hvac_mode", "async_set_temperature", "async_turn_on",
     "async_turn_off"}

\* No call has been made on the caches yet.  A call changes no cache, so a
\* second call from the same caches returns what it returns as a first one.
Fresh == reading = NoReading /\ command = NoCommand

NextEntity ==
    \/ \E r \in StateReaders : Fresh /\ Read(r)
    \/ \E c \in StateCalls : \E arg \in Arguments(c) :
            Fresh /\ Command(c, arg)

SpecEntity == InitEntity /\ [][NextEntity]_vars

\* The vendor values of the two enumerations the codec translates: every
\* key of the table and one the table does not know.
CodecValues(f) ==
    IF f = "fanSpeed" THEN DOMAIN API_TO_UI_FAN \cup {"turbo"}
    ELSE DOMAIN API_TO_UI_VANE \cup {"wide"}

CodecOptions(f) == CodecValues(f) \cup {Missing(f)}

\* An entity over any cached fan speed and vane position.
InitCodec ==
    /\ InitApi
    /\ \E df \in CodecOptions("fanSpeed"),
          dv \in CodecOptions("airDirection") :
            device_data = Cached([fanSpeed |-> df, airDirection |-> dv])
    /\ \E af \in CodecOptions("fanSpeed"),
          av \in CodecOptions("airDirection") :
            zone_adapter = Cached([fanSpeed |-> af, airDirection |-> av])
    /\ updates = Held
    /\ reading = NoReading
    /\ command = NoCommand
    /\ profile_data = NoProfile

CodecReaders == {"fan_mode", "swing_mode"}

CodecCalls == {"async_set_fan_mode", "async_set_swing_mode"}

NextCodec ==
    \/ \E r \in CodecReaders : Fresh /\ Read(r)
    \/ \E c \in CodecCalls : \E arg \in Arguments(c) :
            Fresh /\ Command(c, arg)

SpecCodec == InitCodec /\ [][NextCodec]_vars

ProfileFlags ==
    {"hasModeHeat", "hasModeDry", "hasModeVent", "hasVaneDir", "hasVaneSwing"}

\* The dicts of capability flags: a flag is true, false or not there.
ProfileDicts == UNION {[K -> BOOLEAN] : K \in SUBSET ProfileFlags}

\* An entity over any cached profile: none, the list the profile endpoint
\* returned (empty or with one dict), or a bare dict.
InitProfile ==
    /\ InitApi
    /\ device_data = NoData
    /\ zone_adapter = NoData
    /\ updates = 0
    /\ reading = NoReading
    /\ command = NoCommand
    /\ \/ profile_data = NoProfile
       \/ profile_data = [form |-> "list", items |-> <<>>]
       \/ \E form \in {"list", "dict"}, d \in ProfileDicts :
                profile_data = [form |-> form, items |-> <<d>>]

ProfileReaders == {"hvac_modes", "swing_modes"}

NextProfile == \E r \in ProfileReaders : Fresh /\ Read(r)

SpecProfile == InitProfile /\ [][NextProfile]_vars

\* ---------------------------------------------------------------- claims

Max0(n) == IF n > 0 THEN n ELSE 0

\* The stored credentials are the same after the step: the same tokens, and
\* the same instant of expiry, which the time the step took has only brought
\* nearer.
TokensKept ==
    /\ UNCHANGED <<username, access_token, refresh_token>>
    /\ \E d \in Latencies : token_expires_at' = AgedExpiry(d)

InRequestBody(l) ==
    /\ l.op = "request"
    /\ l.pc \in {"gate_sleep", "refresh_http", "refresh_sleep",
                 "request_http", "request_sleep"}

\* C1: at every moment at most one outbound HTTP call of the client is in
\* flight or in its retry backoff, counting login, refresh_access_token
\* called directly and every _request-based operation.
C1_SingleCallInFlight ==
    Cardinality({p \in Procs : InFlight(proc[p]) \/ Backoff(proc[p])}) <= 1

\* C2: the step in which an attempt of _request is answered with 401 ends the
\* call with KumoCloudAuthError: nothing more is sent, no backoff sleep is
\* started, no refresh attempt is made and the stored tokens stay as they are.
C2_Request401FailsAtOnce ==
    [][\A p \in Procs :
         (/\ proc[p].pc = "request_http"
          /\ proc'[p].rq_outs = Append(proc[p].rq_outs, "401"))
         => /\ proc'[p].pc = "done"
            /\ proc'[p].result = KumoCloudAuthError
            /\ proc'[p].rq_sent = proc[p].rq_sent
            /\ proc'[p].rq_sleeps = proc[p].rq_sleeps
            /\ proc'[p].rf_sent = proc[p].rf_sent
            /\ sends' = sends
            /\ TokensKept]_vars

C2_Witness ==
    \E p \in Procs :
        /\ proc[p].pc = "done"
        /\ proc[p].rq_outs = <<"429", "401">>
        /\ proc[p].result = KumoCloudAuthError

\* The 429 schedule of one retry loop, from the outcomes it got, the sleeps
\* it asked for and the attempts it sent.
BackoffSchedule(l, outs, sleeps, sent, sleep_pc) ==
    LET n == Len(outs)
        all429(k) == n >= k /\ \A i \in 1..k : outs[i] = "429"
    IN /\ n <= 3 /\ sent <= 3
       /\ all429(1) => /\ Len(sleeps) >= 1 /\ sleeps[1] = 60
                       /\ sent >= 2 \/ (n = 1 /\ l.pc = sleep_pc)
       /\ all429(2) => /\ Len(sleeps) >= 2 /\ sleeps[2] = 120
                       /\ sent >= 3 \/ (n = 2 /\ l.pc = sleep_pc)
       /\ all429(3) => /\ Len(sleeps) = 2 /\ sent = 3
                       /\ l.pc = "done"
                       /\ l.result = KumoCloudConnectionError

\* C3: in _request and in refresh_access_token, consecutive 429 answers from
\* attempt 1 on sleep 60 s and retry, sleep 120 s and retry, and fail with
\* KumoCloudConnectionError on attempt 3 with no third sleep and no fourth
\* attempt; a backoff sleep lasts at least the delay asked for.
C3_BackoffSchedule ==
    /\ [](\A p \in Procs :
            /\ BackoffSchedule(proc[p], proc[p].rq_outs, proc[p].rq_sleeps,
                               proc[p].rq_sent, "request_sleep")
            /\ BackoffSchedule(proc[p], proc[p].rf_outs, proc[p].rf_sleeps,
                               proc[p].rf_sent, "refresh_sleep"))
    /\ [][\A p \in Procs :
            /\ (~Backoff(proc[p]) /\ proc'[p].pc = "request_sleep")
                  => proc'[p].wake =
                        now + proc'[p].rq_sleeps[Len(proc'[p].rq_sleeps)]
            /\ (~Backoff(proc[p]) /\ proc'[p].pc = "refresh_sleep")
                  => proc'[p].wake =
                        now + proc'[p].rf_sleeps[Len(proc'[p].rf_sleeps)]
            /\ (Backoff(proc[p]) /\ ~Backoff(proc'[p])
                                  /\ proc'[p].cancelled_at = "none")
                  => proc[p].wake <= now]_vars

C3_Witness ==
    \E p \in Procs :
        /\ proc[p].pc = "done"
        /\ proc[p].rf_outs = <<"429", "429", "429">>
        /\ proc[p].rf_sleeps = <<60, 120>>

\* C4: a login answered with status 403 fails with KumoCloudAuthError.
C4_Login403IsAuthError ==
    \A p \in Procs :
        (proc[p].pc = "done" /\ proc[p].lg_outs = <<"403">>)
            => proc[p].result = KumoCloudAuthError

\* C5: when a _request call passes the rate gate it asks for a wait of exactly
\* max(0, 2 s - time since the last successful completion), 0 when there was
\* none; it sleeps that long before the token check and does not sleep when
\* the wait is 0.
C5_GateWaitsRemainder ==
    [][\A p \in Procs :
         /\ (proc[p].pc = "acquire" /\ proc'[p].pc # "acquire"
                                      /\ proc'[p].cancelled_at = "none")
               => LET w == IF last_completion = None THEN 0
                           ELSE Max0(2 - (now - last_completion))
                  IN /\ w > 0 => /\ proc'[p].pc = "gate_sleep"
                                 /\ proc'[p].wake = now + w
                                 /\ proc'[p].rq_sent + proc'[p].rf_sent = 0
                     /\ w = 0 => proc'[p].pc # "gate_sleep"
         /\ (proc[p].pc = "gate_sleep" /\ proc'[p].pc # "gate_sleep"
                                         /\ proc'[p].cancelled_at = "none")
               => proc[p].wake <= now]_vars

C5_Witness ==
    \E p \in Procs :
        /\ proc[p].pc = "gate_sleep"
        /\ proc[p].wake = now + 1
        /\ last_completion = now - 1

\* The timeout rule of one retry loop.
TimeoutRule(l, outs, sleeps, sent, http_pc) ==
    LET n == Len(outs)
    IN /\ Len(sleeps) =
            Cardinality({i \in 1..n : outs[i] = "429" /\ i < 3})
       /\ (n >= 1 /\ n < 3 /\ outs[n] = "timeout")
             => l.pc = http_pc /\ sent = n + 1
       /\ (n = 3 /\ outs[3] = "timeout")
             => /\ l.pc = "done" /\ sent = 3
                /\ l.result = KumoCloudConnectionError
       /\ (n >= 1 /\ l.pc = "done" /\ outs[n] = "timeout") => n = 3

\* C6: in _request and in refresh_access_token a timeout on attempt 1 or 2 is
\* followed at once by the next attempt with no sleep, a timeout on attempt 3
\* fails with KumoCloudConnectionError, and no call ends on a timeout before
\* its third attempt.
C6_TimeoutRetriesAtOnce ==
    \A p \in Procs :
        /\ TimeoutRule(proc[p], proc[p].rq_outs, proc[p].rq_sleeps,
                       proc[p].rq_sent, "request_http")
        /\ TimeoutRule(proc[p], proc[p].rf_outs, proc[p].rf_sleeps,
                       proc[p].rf_sent, "refresh_http")

C6_Witness ==
    \E p \in Procs :
        /\ proc[p].pc = "done"
        /\ proc[p].rq_outs = <<"timeout", "timeout", "timeout">>
        /\ proc[p].rq_sleeps = <<>>
        /\ proc[p].result = KumoCloudConnectionError

\* C7: a _request call that is between its rate-gate wait and its final
\* outcome holds the request lock, and no other _request call is in that
\* region at the same time.
C7_LockHeldAcrossRequest ==
    \A p \in Procs :
        InRequestBody(proc[p])
            => /\ _request_lock = p
               /\ \A q \in Procs \ {p} : ~InRequestBody(proc[q])

C7_Witness ==
    \E p, q \in Procs :
        /\ proc[p].pc = "request_sleep"
        /\ proc[p].rf_token # None
        /\ proc[q].pc = "acquire"

\* C8: refresh_access_token called with no refresh token stored fails with
\* KumoCloudAuthError and sends nothing; the step in which an attempt is
\* answered with 401 fails with KumoCloudAuthError, sends nothing more,
\* starts no sleep and leaves the tokens and the expiry as they are.
C8_RefreshAuthErrors ==
    [][\A p \in Procs :
         /\ (/\ proc[p].pc = "idle" /\ proc'[p].op = "refresh"
             /\ refresh_token = None)
               => /\ proc'[p].pc = "done"
                  /\ proc'[p].result = KumoCloudAuthError
                  /\ proc'[p].rf_sent = 0
                  /\ sends' = sends
         /\ (/\ proc[p].pc = "refresh_http"
             /\ proc'[p].rf_outs = Append(proc[p].rf_outs, "401"))
               => /\ proc'[p].pc = "done"
                  /\ proc'[p].result = KumoCloudAuthError
                  /\ proc'[p].rf_sent = proc[p].rf_sent
                  /\ proc'[p].rf_sleeps = proc[p].rf_sleeps
                  /\ proc'[p].rq_sent = 0
                  /\ sends' = sends
                  /\ TokensKept]_vars

C8_Witness ==
    \E p \in Procs :
        /\ proc[p].pc = "done"
        /\ proc[p].op = "refresh"
        /\ proc[p].rf_outs = <<"429", "401">>
        /\ proc[p].result = KumoCloudAuthError

\* C9: a _request call that reaches its token check with a stored token near
\* expiry (now + margin >= expiry) sends nothing before its refresh; a call
\* that began with a token near expiry never sends that token; and a call
\* whose inline refresh succeeded sends the token of that refresh.
C9_RefreshBeforeRequest ==
    /\ [](\A p \in Procs :
            (proc[p].op = "request" /\ proc[p].rq_sent >= 1)
               => /\ proc[p].start_near => proc[p].bearer # proc[p].start_tok
                  /\ proc[p].rf_token # None
                        => proc[p].bearer = proc[p].rf_token)
    /\ [][\A p \in Procs :
            (/\ proc[p].pc \in {"acquire", "gate_sleep"}
             /\ proc'[p].pc \notin {"acquire", "gate_sleep"}
             /\ access_token # None
             /\ token_expires_at # None
             /\ now + TOKEN_EXPIRY_MARGIN >= token_expires_at)
               => /\ proc'[p].rq_sent = 0
                  /\ proc'[p].pc \in {"refresh_http", "done"}]_vars

C9_Witness ==
    \E p \in Procs :
        /\ proc[p].pc = "request_http"
        /\ proc[p].start_near
        /\ proc[p].rf_token # None
        /\ proc[p].bearer = proc[p].rf_token
        /\ proc[p].bearer # proc[p].start_tok

\* C10: in every reachable state a present access token comes with a set
\* expiry timestamp.
C10_TokenHasExpiry ==
    access_token # None => token_expires_at # None

\* C11: a call of login, refresh_access_token or _request that fails without
\* having been cancelled ends with KumoCloudAuthError or with
\* KumoCloudConnectionError, whatever the transport answered: a status, a
\* timeout, a connection failure or a 200 without the expected fields.
C11_OnlyTwoErrorKinds ==
    \A p \in Procs :
        (/\ proc[p].pc = "done"
         /\ proc[p].cancelled_at = "none"
         /\ proc[p].result # "ok")
            => proc[p].result \in {KumoCloudAuthError,
                                   KumoCloudConnectionError}

\* C12: a _request call cancelled while it waits for the lock, sleeps at the
\* rate gate or in a backoff, or is in HTTP I/O of its request or of its
\* inline refresh ends there with CancelledError and does not own the lock
\* any more; the lock is only ever owned by a call inside the body of
\* _request, so a later call can take it.
C12_CancelReleasesLock ==
    \A p \in Procs :
        /\ proc[p].cancelled_at # "none"
              => /\ proc[p].pc = "done"
                 /\ proc[p].op = "request" => proc[p].result = CancelledError
        /\ proc[p].pc = "done" => _request_lock # p
        /\ _request_lock = p => InRequestBody(proc[p])

C12_Witness ==
    \E p, q \in Procs :
        /\ proc[p].pc = "done"
        /\ proc[p].op = "request"
        /\ proc[p].cancelled_at = "request_sleep"
        /\ proc[p].result = CancelledError
        /\ proc[q].pc = "acquire"
        /\ _request_lock = None

\* C13: an authenticated request that is in flight or waits to be retried
\* carries the access token that is stored: no login or refresh has replaced
\* the token since the request's headers were built.
C13_BearerIsStoredToken ==
    \A p \in Procs :
        (proc[p].op = "request"
            /\ proc[p].pc \in {"request_http", "request_sleep"})
            => proc[p].bearer = access_token

\* C14: the step in which a login is answered with 403 or times out ends the
\* call with an error and leaves username, access token, refresh token and
\* expiry as they were.
C14_FailedLoginStoresNothing ==
    [][\A p \in Procs :
         (/\ proc[p].pc = "login_http"
          /\ proc'[p].pc = "done"
          /\ proc'[p].lg_outs \in {<<"403">>, <<"timeout">>})
            => /\ proc'[p].result \in {KumoCloudAuthError,
                                       KumoCloudConnectionError}
               /\ TokensKept]_vars

C14_Witness ==
    \E p \in Procs :
        /\ proc[p].pc = "done"
        /\ proc[p].lg_outs = <<"timeout">>
        /\ proc[p].result = KumoCloudConnectionError
        /\ access_token # None
        /\ token_expires_at # None

\* C15: at least 2 s pass between the end of a completed HTTP call and the
\* start of the next one, also after a login or an inline refresh; so no
\* step that receives the successful answer to a login or to a refresh sends
\* an HTTP attempt, which would start 0 s after that call ended.
C15_NoSendOnCompletion ==
    [][\A p \in Procs :
         (/\ proc[p].pc \in {"login_http", "refresh_http"}
          /\ access_token' = issued'
          /\ issued' = issued + 1)
            => sends' = sends]_vars

\* The last-request timestamp denotes the same instant after the step.
StampKept ==
    \E d \in 0..MIN_REQUEST_INTERVAL :
        _last_request_time' = AgedStamp(_last_request_time, d)

\* C16: _last_request_time changes only in a step in which a _request call
\* receives a successful response and returns it; attempts answered 429 or
\* timed out, calls that end in an error or are cancelled, and login and
\* refresh leave it as it is.
C16_StampOnlyOnSuccess ==
    [][\/ StampKept
       \/ \E p \in Procs :
            /\ proc[p].pc = "request_http"
            /\ proc'[p].pc = "done"
            /\ proc'[p].result = "ok"
            /\ _last_request_time' = now]_vars

C16_Witness ==
    \E p \in Procs :
        /\ proc[p].pc = "done"
        /\ proc[p].rq_outs = <<"timeout", "401">>
        /\ proc[p].result = KumoCloudAuthError
        /\ _last_request_time # None
        /\ _last_request_time < now

\* C17: a _request call whose answer is a 2xx with a content type other than
\* JSON returns (an empty object), with GET as with POST.
C17_NonJsonSuccessReturns ==
    \A p \in Procs :
        (/\ proc[p].pc = "done"
         /\ proc[p].op = "request"
         /\ proc[p].rq_outs # <<>>
         /\ proc[p].rq_outs[Len(proc[p].rq_outs)] = "200_nojson")
            => proc[p].result = "ok"

\* C18: after setup, every step leaves access token, refresh token and expiry
\* all three as they were or replaces all three by the values of a new
\* response; login and refresh never update part of them.
C18_CredentialsWholesale ==
    [][setup_pc = "done"
         => \/ /\ access_token' = access_token
               /\ refresh_token' = refresh_token
               /\ \E d \in Latencies \cup NextDurations :
                     token_expires_at' = AgedExpiry(d)
            \/ /\ issued' = issued + 1
               /\ access_token' = issued'
               /\ refresh_token' = issued'
               /\ token_expires_at' = now + TOKEN_REFRESH_INTERVAL]_vars

\* C19: the transport session of a client is created at most once: a step
\* creates a session only when the client never had one, whatever calls and
\* closes came before.
C19_SessionCreatedOnce ==
    [][(session' = "open" /\ session # "open") => session = "none"]_vars

\* The field a reader presents, and how it presents a vendor value.
ReaderField(r) ==
    CASE r \in {"current_temperature", "sensor_temperature"} -> "roomTemp"
      [] r = "target_temperature" ->
            CASE hvac_mode = "cool" -> "spCool"
              [] hvac_mode = "heat" -> "spHeat"
              [] hvac_mode = "heat_cool" -> "spCool"
              [] OTHER -> "none"
      [] r = "sensor_humidity" -> "humidity"
      [] r = "fan_mode" -> "fanSpeed"
      [] r = "swing_mode" -> "airDirection"
      [] r = "power" -> "power"
      [] r = "operation_mode" -> "operationMode"

Presented(r, v) ==
    CASE r = "fan_mode" -> Get(API_TO_UI_FAN, v, v)
      [] r = "swing_mode" -> Get(API_TO_UI_VANE, v, v)
      [] OTHER -> v

\* A snapshot holds a value for a field: the key is there and is not null.
Holds(d, f) == f \in DOMAIN d /\ d[f] # NoneOf(f)

\* C20: every reader (room temperature, target setpoint, humidity, fan speed,
\* vane position, power, operation mode) returns the value of the device
\* snapshot when the device snapshot holds its field, and the value of the
\* zone adapter only when the device snapshot does not hold it.
C20_DeviceValueFirst ==
    \A r \in Readers :
        reading.reader = r
            => LET f == ReaderField(r)
               IN /\ (Holds(device_data, f) /\ Holds(zone_adapter, f))
                        => reading.value = Presented(r, device_data[f])
                  /\ (~Holds(device_data, f) /\ Holds(zone_adapter, f))
                        => reading.value = Presented(r, zone_adapter[f])

\* The power field as the claims name it: the device snapshot's, else the
\* zone adapter's, else none.
PowerField == Get(device_data, "power", Get(zone_adapter, "power", None))

\* Python's falsy values of a field: None, 0 and False (which is 0).
Falsy(v) == v = None \/ v = 0

\* C21: whatever the operation mode, when the power field (device snapshot
\* first, zone adapter as fallback) is 0, absent, null or false, hvac_mode
\* returns off and hvac_action returns off.
C21_PowerOffIsOff ==
    (reading.reader \in {"hvac_mode", "hvac_action"} /\ Falsy(PowerField))
        => reading.value = "off"

\* The cached profile flags capability k.
Flagged(k) ==
    /\ Len(profile_data.items) > 0
    /\ Get(profile_data.items[1], k, FALSE)

Contains(seq, x) == \E i \in DOMAIN seq : seq[i] = x

\* C22: for every capability profile, a missing or empty one included, the
\* mode list starts with off and contains cool; it contains heat and
\* heat_cool exactly when heat is flagged, dry exactly when dry is flagged and
\* fan_only exactly when vent is flagged.
C22_ModeList ==
    reading.reader = "hvac_modes"
        => LET modes == reading.value
           IN /\ Len(modes) > 0 /\ modes[1] = "off"
              /\ Contains(modes, "cool")
              /\ Contains(modes, "heat") <=> Flagged("hasModeHeat")
              /\ Contains(modes, "dry") <=> Flagged("hasModeDry")
              /\ Contains(modes, "fan_only") <=> Flagged("hasModeVent")
              /\ Contains(modes, "heat_cool") <=> Flagged("hasModeHeat")

\* The vendor value a codec reader translates.
RawField(f) == Get(device_data, f, Get(zone_adapter, f, NoneOf(f)))

\* f and g are defined on the six (or seven) keys and undo each other.
InversePair(f, g, n) ==
    /\ Cardinality(DOMAIN f) = n /\ Cardinality(DOMAIN g) = n
    /\ \A x \in DOMAIN f : f[x] \in DOMAIN g /\ g[f[x]] = x
    /\ \A v \in DOMAIN g : g[v] \in DOMAIN f /\ f[g[v]] = v

\* C23: the fan tables and the vane tables are exact inverse pairs: a label
\* that async_set_fan_mode (async_set_swing_mode) has translated reads back
\* as itself, a vendor value that fan_mode (swing_mode) has presented
\* translates back to itself, for all six fan keys and all seven vane keys.
C23_TablesInverse ==
    /\ InversePair(UI_TO_API_FAN, API_TO_UI_FAN, Len(UI_FAN_ORDER))
    /\ InversePair(UI_TO_API_VANE, API_TO_UI_VANE, Len(UI_VANE_ORDER))
    /\ (command.call = "async_set_fan_mode"
            /\ Contains(UI_FAN_ORDER, command.arg))
        => Get(API_TO_UI_FAN, command.commands["fanSpeed"], "None")
                = command.arg
    /\ (command.call = "async_set_swing_mode"
            /\ Contains(UI_VANE_ORDER, command.arg))
        => Get(API_TO_UI_VANE, command.commands["airDirection"], "None")
                = command.arg
    /\ (reading.reader = "fan_mode"
            /\ RawField("fanSpeed") \in DOMAIN API_TO_UI_FAN)
        => Get(UI_TO_API_FAN, reading.value, "None") = RawField("fanSpeed")
    /\ (reading.reader = "swing_mode"
            /\ RawField("airDirection") \in DOMAIN API_TO_UI_VANE)
        => Get(UI_TO_API_VANE, reading.value, "None")
                = RawField("airDirection")

C23_Witness ==
    /\ command.call = "async_set_fan_mode"
    /\ command.arg = "low"
    /\ command.commands = ("fanSpeed" :> "quiet")

\* C24: a fan speed or vane position that is not a key of its table comes
\* back unchanged from both directions: fan_mode and swing_mode return the
\* raw vendor value, async_set_fan_mode and async_set_swing_mode send the
\* label they were given.
C24_UnknownPassesThrough ==
    /\ (reading.reader = "fan_mode"
            /\ RawField("fanSpeed") \notin DOMAIN API_TO_UI_FAN)
        => reading.value = RawField("fanSpeed")
    /\ (reading.reader = "swing_mode"
            /\ RawField("airDirection") \notin DOMAIN API_TO_UI_VANE)
        => reading.value = RawField("airDirection")
    /\ (command.call = "async_set_fan_mode"
            /\ command.arg \notin DOMAIN UI_TO_API_FAN)
        => command.commands = ("fanSpeed" :> command.arg)
    /\ (command.call = "async_set_swing_mode"
            /\ command.arg \notin DOMAIN UI_TO_API_VANE)
        => command.commands = ("airDirection" :> command.arg)

C24_Witness ==
    /\ reading.reader = "fan_mode"
    /\ device_data = ("fanSpeed" :> "turbo")
    /\ "fanSpeed" \notin DOMAIN zone_adapter
    /\ reading.value = "turbo"

\* C25: an operation mode outside the six known ones passes through the mode
\* translation unchanged: with power on hvac_mode reports an unknown vendor
\* operationMode as that same value, and async_set_hvac_mode sends a mode
\* that has no vendor mapping as it is.
C25_UnknownModePassesThrough ==
    /\ (reading.reader = "hvac_mode"
            /\ PowerField = 1
            /\ RawField("operationMode") # NoneOf("operationMode")
            /\ RawField("operationMode") \notin DOMAIN KUMO_TO_HVAC_MODE)
        => reading.value = RawField("operationMode")
    /\ (command.call = "async_set_hvac_mode"
            /\ command.arg \notin DOMAIN HVAC_TO_KUMO_MODE)
        => /\ "operationMode" \in DOMAIN command.commands
           /\ command.commands["operationMode"] = command.arg

ActionValues == {"off", "heating", "cooling", "drying", "fan", "idle"}

\* C26: with power on and vendor mode auto, hvac_action is cooling exactly
\* when the current temperature minus the target is more than 1, heating
\* exactly when it is less than -1, and idle otherwise, also when the
\* current or the target temperature is unknown; and hvac_action always
\* returns one of off, heating, cooling, drying, fan, idle.
C26_ActionInAuto ==
    reading.reader = "hvac_action"
        => /\ reading.value \in ActionValues
           /\ (PowerField = 1
                    /\ RawField("operationMode") = OPERATION_MODE_AUTO)
                => LET known == /\ current_temperature # None
                                /\ target_temperature # None
                       diff == current_temperature - target_temperature
                   IN /\ reading.value = "cooling" <=> (known /\ diff > 1)
                      /\ reading.value = "heating" <=> (known /\ diff < -1)
                      /\ reading.value = "idle"
                            <=> ~(known /\ (diff > 1 \/ diff < -1))

C26_Witness ==
    /\ reading = [reader |-> "hvac_action", value |-> "idle"]
    /\ PowerField = 1
    /\ RawField("operationMode") = OPERATION_MODE_AUTO
    /\ current_temperature = 21
    /\ target_temperature = 22

\* The setpoint that is known for a field: the device snapshot's value,
\* else the zone adapter's, else none.
KnownSetpoint(f) ==
    IF Holds(device_data, f) THEN device_data[f]
    ELSE IF Holds(zone_adapter, f) THEN zone_adapter[f]
    ELSE None

\* commands carries exactly the setpoints that are known, besides base.
WithSetpoints(base) ==
    WithKnown(WithKnown(base, "spCool", KnownSetpoint("spCool")),
              "spHeat", KnownSetpoint("spHeat"))

\* C27: a setpoint change never drops the other setpoint: in cool mode the
\* payload has spCool = the requested value and spHeat = the known heat
\* setpoint (device snapshot first, zone adapter as fallback) whenever one
\* is known; in heat mode it has spHeat = the requested value and spCool =
\* the known cool setpoint whenever one is known.
C27_OtherSetpointKept ==
    (command.call = "async_set_temperature" /\ command.arg # None)
        => /\ hvac_mode = "cool"
                => command.commands
                       = WithKnown(("spCool" :> command.arg),
                                   "spHeat", KnownSetpoint("spHeat"))
           /\ hvac_mode = "heat"
                => command.commands
                       = WithKnown(("spHeat" :> command.arg),
                                   "spCool", KnownSetpoint("spCool"))

\* C28: a setpoint change to t while the effective mode is heat_cool sends
\* exactly spCool = t and spHeat = t - 2.
C28_AutoHysteresis ==
    (command.call = "async_set_temperature" /\ command.arg # None
        /\ hvac_mode = "heat_cool")
        => command.commands
               = [spCool |-> command.arg, spHeat |-> command.arg - 2]

C28_Witness ==
    /\ command.call = "async_set_temperature"
    /\ command.arg = 22
    /\ hvac_mode = "heat_cool"
    /\ command.commands = [spCool |-> 22, spHeat |-> 20]

\* The vendor mode that is cached: the device snapshot's, else the zone
\* adapter's, else none.
LastMode == RawField("operationMode")

\* C29: a mode change to off and a power-off send only operationMode = off;
\* a mode change to another mode sends the new vendor mode and every known
\* setpoint of spCool and spHeat (device snapshot first); power-on sends the
\* last known vendor mode, cool when that mode is off or unknown, and every
\* known setpoint.
C29_ModeAndPowerPayloads ==
    /\ (command.call = "async_turn_off"
            \/ (command.call = "async_set_hvac_mode" /\ command.arg = "off"))
        => command.commands = ("operationMode" :> OPERATION_MODE_OFF)
    /\ (command.call = "async_set_hvac_mode" /\ command.arg # "off"
            /\ command.arg \in DOMAIN HVAC_TO_KUMO_MODE)
        => command.commands
               = WithSetpoints(
                    ("operationMode" :> HVAC_TO_KUMO_MODE[command.arg]))
    /\ command.call = "async_turn_on"
        => command.commands
               = WithSetpoints(
                    ("operationMode" :>
                        IF LastMode \in {NoneOf("operationMode"),
                                         OPERATION_MODE_OFF}
                        THEN OPERATION_MODE_COOL ELSE LastMode))

\* C30: the operation-mode map is invertible and HVAC_TO_KUMO_MODE is its
\* inverse: the six vendor modes map to six distinct modes, a mode that
\* hvac_mode has reported translates back to the vendor mode, and the vendor
\* mode that async_set_hvac_mode has sent translates back to the mode asked
\* for.
C30_ModeMapInvertible ==
    /\ DOMAIN KUMO_TO_HVAC_MODE
            = {OPERATION_MODE_OFF, OPERATION_MODE_COOL, OPERATION_MODE_HEAT,
               OPERATION_MODE_DRY, OPERATION_MODE_VENT, OPERATION_MODE_AUTO}
    /\ Cardinality(DOMAIN KUMO_TO_HVAC_MODE) = 6
    /\ InversePair(KUMO_TO_HVAC_MODE, HVAC_TO_KUMO_MODE, 6)
    /\ (reading.reader = "hvac_mode" /\ PowerField = 1
            /\ LastMode \in DOMAIN KUMO_TO_HVAC_MODE)
        => Get(HVAC_TO_KUMO_MODE, reading.value, "None") = LastMode
    /\ (command.call = "async_set_hvac_mode"
            /\ command.arg \in DOMAIN HVAC_TO_KUMO_MODE)
        => Get(KUMO_TO_HVAC_MODE, command.commands["operationMode"], "None")
                = command.arg

C30_Witness ==
    /\ command.call = "async_set_hvac_mode"
    /\ command.arg = "fan_only"
    /\ command.commands["operationMode"] = OPERATION_MODE_VENT

\* The loop a call is in: the inline refresh's or the one of its own HTTP
\* call.
RetryLoop(l) ==
    IF l.pc \in {"refresh_http", "refresh_sleep"} THEN "refresh"
    ELSE IF l.pc \in {"request_http", "request_sleep"} THEN "request"
    ELSE "none"

\* The answers the loop a call is in has got so far.
LoopAnswers(l) == IF RetryLoop(l) = "refresh" THEN l.rf_outs ELSE l.rq_outs

\* Within one loop the backoff delay changes in one way: it doubles, at the
\* end of a backoff sleep, which a 429 has started.  A timeout, which goes
\* on to the next attempt without a sleep, leaves it as it is.
DelayDoublesAfter429(l, nl) ==
    /\ (/\ RetryLoop(l) # "none"
        /\ RetryLoop(nl) = RetryLoop(l)
        /\ nl.retry_delay # l.retry_delay)
       => /\ nl.retry_delay = 2 * l.retry_delay
          /\ Backoff(l)
          /\ LoopAnswers(l)[Len(LoopAnswers(l))] = "429"
    /\ (/\ RetryLoop(l) # "none"
        /\ RetryLoop(nl) = RetryLoop(l)
        /\ LoopAnswers(nl) = Append(LoopAnswers(l), "timeout"))
       => /\ nl.retry_delay = l.retry_delay
          /\ ~Backoff(nl)

\* C31: whatever the transport answers (429, timeout, error status, success,
\* in any mix), one _request call makes at most 3 attempts of its own HTTP
\* call and at most 3 attempts of an inline token refresh; the backoff delay
\* doubles only after a 429 and never after a timeout; a call that has ended
\* does not hold the request lock; every call under way ends; and, the lock
\* being fair, every caller that waits for the lock gets it.
C31_RetriesBoundedAndCallEnds ==
    /\ [](\A p \in Procs : proc[p].rq_sent <= 3 /\ proc[p].rf_sent <= 3)
    /\ [][\A p \in Procs : DelayDoublesAfter429(proc[p], proc'[p])]_vars
    /\ [](\A p \in Procs : proc[p].pc = "done" => _request_lock = None)
    /\ \A p \in Procs :
         (proc[p].pc \notin {"idle", "done"}) ~> (proc[p].pc = "done")
    /\ \A p \in Procs : (proc[p].pc = "acquire") ~> (_request_lock = p)

\* A call that began with the token near expiry, refreshed it inline and
\* then used up its three attempts on 429, timeout and 429 has ended and
\* released the lock, with another caller waiting for it.
C31_Witness ==
    \E p, q \in Procs :
        /\ proc[p].pc = "done"
        /\ proc[p].result = KumoCloudConnectionError
        /\ proc[p].start_near
        /\ proc[p].rf_token # None
        /\ proc[p].rq_sent = 3
        /\ proc[p].rq_outs = <<"429", "timeout", "429">>
        /\ proc[p].rq_sleeps = <<INITIAL_RETRY_DELAY>>
        /\ proc[q].pc = "acquire"
        /\ _request_lock = None

\* C32: in the setup flow, a login that the server answers with 403 (the
\* first call of the flow when no token is stored, or the call that follows
\* a probe failed with an authentication error) ends async_setup_entry in
\* ConfigEntryAuthFailed, and not in ConfigEntryNotReady.
C32_RejectedCredentialsFailAuth ==
    [][(/\ setup_pc = "login"
        /\ proc[SetupCaller].pc = "done"
        /\ proc[SetupCaller].lg_outs = <<"403">>)
       => setup_pc' = ConfigEntryAuthFailed]_vars
====
